---- MODULE Spec2Model ----
(***************************************************************************)
(* PMS (PackMySeal), the package manager of TuffSeal: a model of pms.py.   *)
(*                                                                         *)
(* The program is a command-line tool: one invocation runs one command to  *)
(* its end (single-threaded, blocking I/O).  The state that survives an    *)
(* invocation is the filesystem: the project manifest pms_project.json,    *)
(* the module directories under Modules/, and the credential file.  The    *)
(* registry is an external server: what it answers, like what the user     *)
(* types, is an input of the invocation.  Each command is one action.  The *)
(* variables lastCmd, exitCode, declined, log, sess, inp and pre describe  *)
(* the invocation that produced the current state.                         *)
(***************************************************************************)
EXTENDS Integers, Sequences, FiniteSets, TLC

\* ------------------------------------------------------------------ bounds
MaxModules == 2
MaxVersions == 2

ModuleAt(i) == "m" \o ToString(i)
ModuleNames == {ModuleAt(i) : i \in 1..MaxModules}
Versions == {"v" \o ToString(i) : i \in 1..MaxVersions}
Tokens == {"t1", "t2"}
RefreshTokens == {"r1"}
Users == {"alice"}

\* ---------------------------------------------------------- Python values
\* None, the exception object get_latest_version returns, no module, no version
PyNone == "<None>"
ExcObj == "<exception>"
NoModule == ""
NoVersion == "<absent>"

\* Python truthiness of the values the model passes around
Truthy(v) == v \notin {PyNone, ""}

\* str.lower() on the answers the model types
Lower(a) == IF a = "Y" THEN "y" ELSE IF a = "YES" THEN "yes" ELSE a

\* what the user may type at a prompt
Answers == {"YES", "n"}

\* ------------------------------------------------------------------ state
VARIABLES
    manifestExists, \* pms_project.json exists in the project directory
    modules,        \* its "modules" mapping: module name -> version
    dirs,           \* Modules/<name> directories: name -> versions extracted into it
    auth,           \* the credential file (pms_auth.json)
    lastCmd,        \* the command of the last invocation
    exitCode,       \* its process exit status
    declined,       \* it ended at a declined confirmation prompt
    log,            \* the requests and filesystem steps it made, in order
    sess,           \* what refresh_auth_token did in it
    inp,            \* its inputs
    pre,            \* the filesystem before it
    pending         \* the request the running process waits on, "none" when
                    \* no process is running

vars == <<manifestExists, modules, dirs, auth,
          lastCmd, exitCode, declined, log, sess, inp, pre, pending>>

NoAuth == [exists |-> FALSE, username |-> "", token |-> "", refresh_token |-> ""]

AuthRecord(u, t, r) == [exists |-> TRUE, username |-> u, token |-> t, refresh_token |-> r]

\* manifest entries and directories are functions from the module names present
Has(f, m) == m \in DOMAIN f

Put(f, m, v) == [x \in DOMAIN f \cup {m} |-> IF x = m THEN v ELSE f[x]]

Drop(f, m) == [x \in DOMAIN f \ {m} |-> f[x]]

\* one entry of the log
Ev(op, m, v) == [op |-> op, m |-> m, v |-> v]

NoSess == [called |-> FALSE, returned |-> FALSE, checkAlive |-> FALSE,
           refreshCalled |-> FALSE, issued |-> ""]

\* the inputs of an invocation: the module and version arguments, the step the
\* environment makes fail for faultModule (project commands), and the
\* registry's latest version of the modules it may be asked about
NoInp == [module |-> NoModule, version |-> NoVersion, fault |-> "none",
          faultModule |-> NoModule, latest |-> <<>>]

\* the result of a command: exit status, the state it leaves, and its record
Out(code, st, lg, decl, ss) ==
    [code |-> code, st |-> st, log |-> lg, declined |-> decl, sess |-> ss]

\* the filesystem a command works on
Snapshot == [manifestExists |-> manifestExists, modules |-> modules,
             dirs |-> dirs, auth |-> auth]

\* ------------------------------------------------------- credential store
\* load_auth: exits 1 when the credential file does not exist
load_auth(a) ==
    IF ~a.exists
    THEN [exited |-> TRUE, code |-> 1, value |-> NoAuth]
    ELSE [exited |-> FALSE, code |-> 0, value |-> a]

\* save_auth: writes the three fields it is given
save_auth(username, token, refresh_token) ==
    AuthRecord(username, token, refresh_token)

\* clear_auth: unlink(missing_ok=True)
clear_auth == NoAuth

\* is_access_token_alive: GET /check with the stored token; any error is False
is_access_token_alive(a, checkResp) ==
    LET ld == load_auth(a) IN
    IF ld.exited
    THEN [exited |-> TRUE, code |-> ld.code, value |-> FALSE, log |-> <<>>]
    ELSE [exited |-> FALSE, code |-> 0,
          value |-> (checkResp = "alive"),
          log |-> <<Ev("check", NoModule, ld.value.token)>>]

\* a variant of ask_confirm: an accepted prompt returns True
ask_confirm_returns_true(answer) ==
    LET r == Lower(answer) \in {"y", "yes"} IN
    IF r # TRUE
    THEN [exited |-> TRUE, code |-> 1, value |-> PyNone]
    ELSE [exited |-> FALSE, code |-> 0, value |-> "True"]

\* ask_confirm: exits 1 unless the answer is y or yes; has no return statement,
\* so an accepted prompt returns None
ask_confirm(answer) ==
    LET r == Lower(answer) \in {"y", "yes"} IN
    IF r # TRUE
    THEN [exited |-> TRUE, code |-> 1, value |-> PyNone]
    ELSE [exited |-> FALSE, code |-> 0, value |-> PyNone]

\* -------------------------------------------------------- session manager
\* refresh_auth_token (the spec's ensure_session).  checkResp is what GET /check
\* answers: "alive", "dead" or "err" (the request or its parsing failed);
\* refreshResp is what GET /refresh answers: "err" (the request failed),
\* "notoken" (a response without a token) or the token the registry issues.

\* variants of refreshed_record: the new token is dropped; the new token is
\* written over the refresh token too
refreshed_record_old_token(a, new_access_token) ==
    save_auth(a.username, a.token, a.refresh_token)

refreshed_record_new_everywhere(a, new_access_token) ==
    save_auth(a.username, new_access_token, new_access_token)

\* line 368: the record written after a successful refresh
refreshed_record(a, new_access_token) ==
    save_auth(a.username, new_access_token, a.refresh_token)

\* a variant of renew: the record is written before the response's token is
\* looked at
renew_saves_before_token_check(a, lg0, s0, refreshResp) ==
    LET refresh == a.refresh_token
        lg      == lg0 \o <<Ev("refresh", NoModule, refresh)>>
        s1      == [s0 EXCEPT !.refreshCalled = TRUE] IN
    IF ~Truthy(refresh) \/ refreshResp = "err"
    THEN [exited |-> TRUE, code |-> 1, auth |-> a, log |-> lg0, sess |-> s0]
    ELSE IF refreshResp = "notoken"
    THEN [exited |-> TRUE, code |-> 1, auth |-> refreshed_record(a, ""),
          log |-> lg, sess |-> s1]
    ELSE [exited |-> FALSE, code |-> 0, auth |-> refreshed_record(a, refreshResp), log |-> lg,
          sess |-> [s1 EXCEPT !.returned = TRUE, !.issued = refreshResp]]

\* lines 344-372: the renewal, reached when the liveness check was not alive
renew(a, lg0, s0, refreshResp) ==
    LET ld      == load_auth(a)
        refresh == ld.value.refresh_token
        lg      == lg0 \o <<Ev("refresh", NoModule, refresh)>>
        s1      == [s0 EXCEPT !.refreshCalled = TRUE] IN
    IF ld.exited
    THEN [exited |-> TRUE, code |-> ld.code, auth |-> a,
          log |-> lg0, sess |-> s0]
    ELSE IF ~Truthy(refresh)
    THEN [exited |-> TRUE, code |-> 1, auth |-> a,
          log |-> lg0, sess |-> s0]
    ELSE IF refreshResp = "err"
    THEN [exited |-> TRUE, code |-> 1, auth |-> a, log |-> lg, sess |-> s1]
    ELSE IF ~Truthy(IF refreshResp = "notoken" THEN PyNone ELSE refreshResp)
    THEN [exited |-> TRUE, code |-> 1, auth |-> a, log |-> lg, sess |-> s1]
    ELSE [exited |-> FALSE, code |-> 0,
          auth  |-> refreshed_record(ld.value, refreshResp),
          log   |-> lg,
          sess  |-> [s1 EXCEPT !.returned = TRUE, !.issued = refreshResp]]

\* a variant of refresh_auth_token: no return after an alive check
refresh_auth_token_no_early_return(a, checkResp, refreshResp) ==
    LET chk == is_access_token_alive(a, checkResp)
        s0  == [NoSess EXCEPT !.called = TRUE, !.checkAlive = chk.value] IN
    IF chk.exited
    THEN [exited |-> TRUE, code |-> chk.code, auth |-> a,
          log |-> chk.log, sess |-> s0]
    ELSE renew(a, chk.log, s0, refreshResp)

\* lines 340-342, then renew
refresh_auth_token(a, checkResp, refreshResp) ==
    LET chk == is_access_token_alive(a, checkResp)
        s0  == [NoSess EXCEPT !.called = TRUE] IN
    IF chk.exited
    THEN [exited |-> TRUE, code |-> chk.code, auth |-> a,
          log |-> chk.log, sess |-> s0]
    ELSE IF chk.value
    THEN [exited |-> FALSE, code |-> 0, auth |-> a,
          log |-> chk.log, sess |-> [s0 EXCEPT !.returned = TRUE, !.checkAlive = TRUE]]
    ELSE renew(a, chk.log, s0, refreshResp)

CheckResps == {"alive", "dead", "err"}
RefreshResps == {"err", "notoken"} \cup Tokens

\* the registry's answers to /check and /refresh during one invocation (a
\* registry that finds the token alive is not asked to refresh it)
SessionEnvs ==
    {[check |-> "alive", refresh |-> "err"]} \cup
    [check : CheckResps \ {"alive"}, refresh : RefreshResps]

\* one confirmation prompt in the log
Prompt(m, c) == Ev("prompt", m, IF c.exited THEN "declined" ELSE "accepted")

\* a request that failed (a connection error or a non-2xx answer)
Failed(op, fault) == IF fault = "request" THEN <<Ev("failed", NoModule, op)>> ELSE <<>>

\* ------------------------------------------------------- list / register
\* cmd_list_versions: GET /modules/<m>/versions; a failed request is only printed
cmd_list_versions(st, module_name, fault) ==
    Out(0, st, <<Ev("list", module_name, "")>> \o Failed("list", fault), FALSE, NoSess)

\* cmd_register: POST /register; a failed request is only printed
cmd_register(st, username, fault) ==
    Out(0, st, <<Ev("register", NoModule, username)>> \o Failed("register", fault),
        FALSE, NoSess)

\* --------------------------------------------------------- login / logout
\* the username argument of login is any string, the empty one included
LoginNames == Users \cup {""}

\* what POST /login answers: an error, or a body whose token and refresh_token
\* may each be missing
LoginResps ==
    {[kind |-> "err", token |-> PyNone, refresh |-> PyNone]} \cup
    [kind : {"ok"}, token : Tokens \cup {PyNone}, refresh : RefreshTokens \cup {PyNone}]

\* cmd_login: a failed request is only printed; a body without both tokens exits 1
cmd_login(st, username, resp) ==
    LET lg == <<Ev("login", NoModule, username)>> IN
    IF resp.kind = "err"
    THEN Out(0, st, lg \o Failed("login", "request"), FALSE, NoSess)
    ELSE IF ~Truthy(resp.token) \/ ~Truthy(resp.refresh)
    THEN Out(1, st, lg, FALSE, NoSess)
    ELSE Out(0, [st EXCEPT !.auth = save_auth(username, resp.token, resp.refresh)],
             lg, FALSE, NoSess)

\* main's logout lambda: ask_confirm("Log out?") and clear_auth() and print(...)
cmd_logout(st, answer) ==
    LET c  == ask_confirm(answer)
        lg == <<Prompt(NoModule, c)>> IN
    IF c.exited
    THEN Out(c.code, st, lg, TRUE, NoSess)
    ELSE IF Truthy(c.value)
    THEN Out(0, [st EXCEPT !.auth = clear_auth], lg \o <<Ev("clear_auth", NoModule, "")>>,
             FALSE, NoSess)
    ELSE Out(0, st, lg, FALSE, NoSess)

\* ------------------------------------------------- authenticated commands
\* cmd_whoami: a failed request is only printed
cmd_whoami(st, fault, checkResp, refreshResp) ==
    LET s == refresh_auth_token(st.auth, checkResp, refreshResp)
        t == [st EXCEPT !.auth = s.auth] IN
    IF s.exited
    THEN Out(s.code, t, s.log, FALSE, s.sess)
    ELSE Out(0, t, s.log \o <<Ev("whoami", NoModule, load_auth(s.auth).value.token)>>
                         \o Failed("whoami", fault),
             FALSE, s.sess)

\* a variant of cmd_upload: the credential file is read before refresh_auth_token
cmd_upload_loads_auth_first(st, module, version, answer, fault, checkResp, refreshResp) ==
    LET s == refresh_auth_token(st.auth, checkResp, refreshResp)
        t == [st EXCEPT !.auth = s.auth]
        a == load_auth(st.auth).value
        c == ask_confirm(answer)
        lg1 == s.log \o <<Prompt(module, c)>> IN
    IF s.exited
    THEN Out(s.code, t, s.log, FALSE, s.sess)
    ELSE IF fault = "nozip"
    THEN Out(1, t, s.log \o <<Ev("failed", NoModule, "nozip")>>, FALSE, s.sess)
    ELSE IF c.exited
    THEN Out(c.code, t, lg1, TRUE, s.sess)
    ELSE Out(IF fault = "request" THEN 1 ELSE 0, t,
             lg1 \o <<Ev("upload", module, a.token)>> \o Failed("upload", fault),
             FALSE, s.sess)

\* cmd_upload: fault is "nozip" (the zip file is missing), "request" (the upload
\* request fails) or "none"
cmd_upload(st, module, version, answer, fault, checkResp, refreshResp) ==
    LET s == refresh_auth_token(st.auth, checkResp, refreshResp)
        t == [st EXCEPT !.auth = s.auth]
        a == load_auth(s.auth).value
        c == ask_confirm(answer)
        lg1 == s.log \o <<Prompt(module, c)>> IN
    IF s.exited
    THEN Out(s.code, t, s.log, FALSE, s.sess)
    ELSE IF fault = "nozip"
    THEN Out(1, t, s.log \o <<Ev("failed", NoModule, "nozip")>>, FALSE, s.sess)
    ELSE IF c.exited
    THEN Out(c.code, t, lg1, TRUE, s.sess)
    ELSE Out(IF fault = "request" THEN 1 ELSE 0, t,
             lg1 \o <<Ev("upload", module, a.token)>> \o Failed("upload", fault),
             FALSE, s.sess)

\* a variant of cmd_delete_from_pls: one prompt, whatever is deleted
cmd_delete_from_pls_one_prompt(st, fullname, vername0, answer1, answer2, fault, checkResp, refreshResp) ==
    LET s == refresh_auth_token(st.auth, checkResp, refreshResp)
        t == [st EXCEPT !.auth = s.auth]
        c1 == ask_confirm(answer1)
        a  == load_auth(s.auth).value
        lg1 == s.log \o <<Prompt(fullname, c1)>> IN
    IF s.exited
    THEN Out(s.code, t, s.log, FALSE, s.sess)
    ELSE IF c1.exited
    THEN Out(c1.code, t, lg1, TRUE, s.sess)
    ELSE Out(IF fault = "request" THEN 1 ELSE 0, t,
             lg1 \o <<Ev("delete", fullname, a.token)>> \o Failed("delete", fault),
             FALSE, s.sess)

\* cmd_delete_from_pls: vername is NoVersion when the argument has no "@"; an
\* empty vername ("module@") is not truthy and deletes the entire module
cmd_delete_from_pls(st, fullname, vername0, answer1, answer2, fault, checkResp, refreshResp) ==
    LET s == refresh_auth_token(st.auth, checkResp, refreshResp)
        t == [st EXCEPT !.auth = s.auth]
        vername == IF vername0 = NoVersion THEN PyNone ELSE vername0
        c1 == ask_confirm(answer1)
        c2 == ask_confirm(answer2)
        a  == load_auth(s.auth).value
        lg1 == s.log \o <<Prompt(fullname, c1)>>
        lg2 == IF Truthy(vername) THEN lg1 ELSE lg1 \o <<Prompt(fullname, c2)>> IN
    IF s.exited
    THEN Out(s.code, t, s.log, FALSE, s.sess)
    ELSE IF c1.exited
    THEN Out(c1.code, t, lg1, TRUE, s.sess)
    ELSE IF ~Truthy(vername) /\ c2.exited
    THEN Out(c2.code, t, lg2, TRUE, s.sess)
    ELSE Out(IF fault = "request" THEN 1 ELSE 0, t,
             lg2 \o <<Ev("delete", fullname, a.token)>> \o Failed("delete", fault),
             FALSE, s.sess)

\* ------------------------------------------------------------- the project
\* what GET /modules/<m>/versions/latest answers in this invocation: reg[m], the
\* registry's latest version of m, or "err" when the lookup for faultModule fails
LookupResps(reg, fault, faultModule) ==
    [m \in DOMAIN reg |-> IF fault = "lookup" /\ faultModule = m THEN "err" ELSE reg[m]]

\* get_latest_version, called with the argument tuple args: a call without its
\* one positional argument raises TypeError before any request is made; a failed
\* request RETURNS the exception object (return e)
get_latest_version(args, respOf) ==
    IF Len(args) # 1
    THEN [raised |-> TRUE, value |-> PyNone, log |-> <<>>]
    ELSE [raised |-> FALSE,
          value  |-> IF respOf[args[1]] = "err" THEN ExcObj ELSE respOf[args[1]],
          log    |-> <<Ev("latest", args[1], "")>>]

\* os.removedirs, called with the argument tuple args: without its argument it
\* raises TypeError; it removes only an existing, empty directory
os_removedirs(args, d) ==
    IF Len(args) # 1
    THEN [raised |-> TRUE, dirs |-> d]
    ELSE IF ~Has(d, args[1]) \/ d[args[1]] # {}
    THEN [raised |-> TRUE, dirs |-> d]
    ELSE [raised |-> FALSE, dirs |-> Drop(d, args[1])]

\* cmd_init: creates the directories and writes a manifest with no modules
cmd_init(st) ==
    Out(0, [st EXCEPT !.manifestExists = TRUE, !.modules = <<>>],
        <<Ev("save_manifest", NoModule, "")>>, FALSE, NoSess)

\* lines 195-227 of cmd_install: download, extract, record in the manifest.
\* served is the version of the archive the registry sends; fault is "download",
\* "extract", "save" or something else (no failure here)
install_archive(st, lg0, module_name, version, served, fault) ==
    LET lg1 == lg0 \o <<Ev("download", module_name, IF version = "latest" THEN "" ELSE version)>>
        d1  == IF Has(st.dirs, module_name) THEN st.dirs ELSE Put(st.dirs, module_name, {})
        lg2 == lg1 \o <<Ev("extract", module_name, served)>>
        d2  == Put(d1, module_name, d1[module_name] \cup {served})
        lg3 == lg2 \o <<Ev("save_manifest", module_name, version)>> IN
    IF fault = "download" \/ version = ExcObj
    THEN Out(1, st, lg1, FALSE, NoSess)
    ELSE IF fault = "extract"
    THEN Out(1, [st EXCEPT !.dirs = d1], lg2, FALSE, NoSess)
    ELSE IF ~st.manifestExists \/ fault = "save"
    THEN Out(1, [st EXCEPT !.dirs = d2], lg2, FALSE, NoSess)
    ELSE Out(0, [st EXCEPT !.dirs = d2, !.modules = Put(@, module_name, version)],
             lg3, FALSE, NoSess)

\* a variant of cmd_install: the latest version is looked up whether or not a
\* version is given
cmd_install_looks_up_always(st, module_name, version0, answer, reg, fault) ==
    LET lk == get_latest_version(<<module_name>>, LookupResps(reg, fault, module_name))
        version == IF version0 # NoVersion THEN version0 ELSE lk.value
        served  == IF version = "latest" THEN reg[module_name] ELSE version
        c   == ask_confirm(answer)
        lg1 == lk.log \o <<Prompt(module_name, c)>> IN
    IF c.exited
    THEN Out(c.code, st, lg1, TRUE, NoSess)
    ELSE IF ~Truthy(c.value)
    THEN Out(0, st, lg1, FALSE, NoSess)
    ELSE install_archive(st, lg1, module_name, version, served, fault)

\* cmd_install: version0 is NoVersion when the argument has no "@"; reg is the
\* registry's latest version of each module
cmd_install(st, module_name, version0, answer, reg, fault) ==
    LET lk == get_latest_version(<<module_name>>, LookupResps(reg, fault, module_name))
        version == IF version0 # NoVersion THEN version0 ELSE lk.value
        served  == IF version = "latest" THEN reg[module_name] ELSE version
        lg0 == IF version0 # NoVersion THEN <<>> ELSE lk.log
        c   == ask_confirm(answer)
        lg1 == lg0 \o <<Prompt(module_name, c)>> IN
    IF c.exited
    THEN Out(c.code, st, lg1, TRUE, NoSess)
    ELSE IF ~Truthy(c.value)
    THEN Out(0, st, lg1, FALSE, NoSess)
    ELSE install_archive(st, lg1, module_name, version, served, fault)

\* lines 247-258 of cmd_remove: fault is "rmtree", "save" or something else
remove_module(st, lg0, module_name, fault) ==
    LET lg1 == lg0 \o <<Ev("rmtree", module_name, "")>>
        d1  == Drop(st.dirs, module_name)
        lg2 == lg1 \o <<Ev("save_manifest", module_name, "")>> IN
    IF fault = "rmtree"
    THEN Out(1, st, lg1, FALSE, NoSess)
    ELSE IF ~st.manifestExists \/ fault = "save"
    THEN Out(1, [st EXCEPT !.dirs = d1], lg1, FALSE, NoSess)
    ELSE Out(0, [st EXCEPT !.dirs = d1, !.modules = Drop(@, module_name)],
             lg2, FALSE, NoSess)

\* a variant of cmd_remove: the directory is removed before the prompt
cmd_remove_removes_before_confirm(st, module_name, answer, fault) ==
    LET c   == ask_confirm(answer)
        lg1 == <<Ev("rmtree", module_name, ""), Prompt(module_name, c)>>
        t   == [st EXCEPT !.dirs = Drop(@, module_name)] IN
    IF ~Has(st.dirs, module_name)
    THEN Out(1, st, <<>>, FALSE, NoSess)
    ELSE IF c.exited
    THEN Out(c.code, t, lg1, TRUE, NoSess)
    ELSE Out(0, t, lg1, FALSE, NoSess)

\* cmd_remove: lines 230-245, then remove_module
cmd_remove(st, module_name, answer, fault) ==
    LET c   == ask_confirm(answer)
        lg1 == <<Prompt(module_name, c)>> IN
    IF ~Has(st.dirs, module_name)
    THEN Out(1, st, <<>>, FALSE, NoSess)
    ELSE IF c.exited
    THEN Out(c.code, st, lg1, TRUE, NoSess)
    ELSE IF ~Truthy(c.value)
    THEN Out(0, st, lg1, FALSE, NoSess)
    ELSE remove_module(st, lg1, module_name, fault)

\* ------------------------------------------------------------ updatemodules
\* the argument tuples of the calls at lines 435 and 455: both are written
\* without arguments, get_latest_version() and os.removedirs()
CallArgs == [m \in ModuleNames |-> <<>>]

\* a variant of FirstLoop: a raised exception ends the loop
RECURSIVE FirstLoopBreaks(_, _, _, _, _)
FirstLoopBreaks(i, mods, argsOf, respOf, acc) ==
    IF i > MaxModules THEN acc
    ELSE LET module == ModuleAt(i)
             r == get_latest_version(argsOf[module], respOf) IN
         IF ~Has(mods, module) THEN FirstLoopBreaks(i + 1, mods, argsOf, respOf, acc)
         ELSE IF r.raised
         THEN [acc EXCEPT !.log = @ \o <<Ev("report", module, "lookup")>>]
         ELSE IF module = r.value
         THEN FirstLoopBreaks(i + 1, mods, argsOf, respOf,
                              [acc EXCEPT !.log = @ \o r.log \o <<Ev("uptodate", module, "")>>])
         ELSE FirstLoopBreaks(i + 1, mods, argsOf, respOf,
                              [acc EXCEPT !.log = @ \o r.log, !.to_update = Append(@, module)])

\* lines 431-445: the staleness loop over the manifest's modules, in order.
\* A raised exception is reported and the loop continues; line 441 compares the
\* module NAME with the fetched version.
RECURSIVE FirstLoop(_, _, _, _, _)
FirstLoop(i, mods, argsOf, respOf, acc) ==
    IF i > MaxModules THEN acc
    ELSE LET module == ModuleAt(i)
             r == get_latest_version(argsOf[module], respOf) IN
         IF ~Has(mods, module) THEN FirstLoop(i + 1, mods, argsOf, respOf, acc)
         ELSE IF r.raised
         THEN FirstLoop(i + 1, mods, argsOf, respOf,
                        [acc EXCEPT !.log = @ \o <<Ev("report", module, "lookup")>>])
         ELSE IF module = r.value
         THEN FirstLoop(i + 1, mods, argsOf, respOf,
                        [acc EXCEPT !.log = @ \o r.log \o <<Ev("uptodate", module, "")>>])
         ELSE FirstLoop(i + 1, mods, argsOf, respOf,
                        [acc EXCEPT !.log = @ \o r.log, !.to_update = Append(@, module)])

\* lines 447-487: the update loop over TO_UPDATE.  A failed directory removal
\* is reported and the loop continues; a failed download, extraction or
\* manifest write ends the process (sys.exit(1)).  The download is sent without
\* a version, so the registry serves its latest, reg[m].
RECURSIVE SecondLoop(_, _, _, _, _, _, _, _)
SecondLoop(k, to_update, st, lg, argsOf, reg, fault, faultModule) ==
    IF k > Len(to_update) THEN Out(0, st, lg, FALSE, NoSess)
    ELSE
    LET to_update_m == to_update[k]
        lv   == get_latest_version(<<to_update_m>>, LookupResps(reg, fault, faultModule))
        latest_ver == lv.value
        rm   == os_removedirs(argsOf[to_update_m], st.dirs)
        hit  == faultModule = to_update_m
        lg0  == lg \o lv.log
        lg1  == lg0 \o <<Ev("removedirs", to_update_m, "")>> \o <<Ev("download", to_update_m, "")>>
        d1   == IF Has(rm.dirs, to_update_m) THEN rm.dirs ELSE Put(rm.dirs, to_update_m, {})
        lg2  == lg1 \o <<Ev("extract", to_update_m, reg[to_update_m])>>
        d2   == Put(d1, to_update_m, d1[to_update_m] \cup {reg[to_update_m]})
        lg3  == lg2 \o <<Ev("save_manifest", to_update_m, latest_ver)>> IN
    IF rm.raised \/ (hit /\ fault = "removedirs")
    THEN SecondLoop(k + 1, to_update, st, lg0 \o <<Ev("report", to_update_m, "removedirs")>>,
                    argsOf, reg, fault, faultModule)
    ELSE IF hit /\ fault = "download"
    THEN Out(1, [st EXCEPT !.dirs = rm.dirs], lg1, FALSE, NoSess)
    ELSE IF hit /\ fault = "extract"
    THEN Out(1, [st EXCEPT !.dirs = d1], lg2, FALSE, NoSess)
    ELSE IF ~st.manifestExists \/ (hit /\ fault = "save") \/ latest_ver = ExcObj
    THEN Out(1, [st EXCEPT !.dirs = d2], lg2, FALSE, NoSess)
    ELSE SecondLoop(k + 1, to_update,
                    [st EXCEPT !.dirs = d2, !.modules = Put(@, to_update_m, latest_ver)],
                    lg3, argsOf, reg, fault, faultModule)

\* lines 414-487 with the calls' argument tuples given by argsOf
update_modules(st, argsOf, reg, fault, faultModule) ==
    LET first == FirstLoop(1, st.modules, argsOf, LookupResps(reg, fault, faultModule),
                           [to_update |-> <<>>, log |-> <<>>]) IN
    IF ~st.manifestExists
    THEN Out(1, st, <<>>, FALSE, NoSess)
    ELSE SecondLoop(1, first.to_update, st, first.log, argsOf, reg, fault, faultModule)

\* a variant of cmd_update_modules: every module of the manifest is downloaded
\* and installed again, stale or not
RECURSIVE ReinstallAll(_, _, _, _)
ReinstallAll(i, st, lg, reg) ==
    IF i > MaxModules THEN Out(0, st, lg, FALSE, NoSess)
    ELSE LET module == ModuleAt(i)
             o == install_archive(st, lg, module, reg[module], reg[module], "none") IN
         IF ~Has(st.modules, module) THEN ReinstallAll(i + 1, st, lg, reg)
         ELSE ReinstallAll(i + 1, o.st, o.log, reg)

cmd_update_modules_reinstalls_all(st, reg, fault, faultModule) ==
    IF ~st.manifestExists
    THEN Out(1, st, <<>>, FALSE, NoSess)
    ELSE ReinstallAll(1, st, <<>>, reg)

\* cmd_update_modules: lines 414-487
cmd_update_modules(st, reg, fault, faultModule) ==
    update_modules(st, CallArgs, reg, fault, faultModule)

\* ------------------------------------------------------------ the machine
\* the states of one module in a project: not installed, or version v installed
ModuleStates ==
    {[dir |-> FALSE, files |-> {}, entry |-> NoVersion]} \cup
    {[dir |-> TRUE, files |-> {v}, entry |-> v] : v \in Versions}

ModulesOf(p) == [m \in {x \in ModuleNames : p[x].entry # NoVersion} |-> p[m].entry]

DirsOf(p) == [m \in {x \in ModuleNames : p[x].dir} |-> p[m].files]

\* the credential files a user can have: none, one written by login, or one
\* whose refresh_token is missing
AuthFiles ==
    {NoAuth} \cup {AuthRecord(u, t, r) : u \in Users, t \in Tokens, r \in RefreshTokens \cup {""}}

\* the registry's latest version of the modules in D, during one invocation
Registries(D) == [D -> Versions]

Init ==
    /\ \/ /\ manifestExists = FALSE
          /\ modules = <<>>
          /\ dirs = <<>>
       \/ /\ manifestExists = TRUE
          /\ \E p \in [ModuleNames -> ModuleStates] :
                /\ modules = ModulesOf(p)
                /\ dirs = DirsOf(p)
    /\ auth \in AuthFiles
    /\ lastCmd = "none"
    /\ exitCode = 0
    /\ declined = FALSE
    /\ log = <<>>
    /\ sess = NoSess
    /\ inp = NoInp
    /\ pre = Snapshot
    /\ pending = "none"

\* one invocation of the tool: command cmd with inputs i ended as o
Run(cmd, i, o) ==
    /\ manifestExists' = o.st.manifestExists
    /\ modules' = o.st.modules
    /\ dirs' = o.st.dirs
    /\ auth' = o.st.auth
    /\ lastCmd' = cmd
    /\ exitCode' = o.code
    /\ declined' = o.declined
    /\ log' = o.log
    /\ sess' = o.sess
    /\ inp' = i
    /\ pre' = Snapshot
    /\ pending' = "none"

In(module, version, fault, faultModule, reg) ==
    [module |-> module, version |-> version, fault |-> fault,
     faultModule |-> faultModule, latest |-> reg]

CmdInit == \E o \in {cmd_init(Snapshot)} : Run("init", NoInp, o)

\* install <module>[@version]; the registry is asked for its latest version
\* only when no version is given, or the literal "latest" is
CmdInstall ==
    \E module \in ModuleNames, version \in Versions \cup {"latest", NoVersion},
       answer \in Answers, fault \in {"none", "lookup", "download", "extract"} :
      \E reg \in Registries({module}) :
        /\ fault = "lookup" => version = NoVersion
        /\ version \in Versions => reg[module] = version
        /\ \E o \in {cmd_install(Snapshot, module, version, answer, reg, fault)} :
               Run("install", In(module, version, fault, module, reg), o)

CmdRemove ==
    \E module \in ModuleNames, answer \in Answers, fault \in {"none", "rmtree"} :
        \E o \in {cmd_remove(Snapshot, module, answer, fault)} :
            Run("remove", In(module, NoVersion, fault, module, <<>>), o)

CmdUpdateModules ==
    \E fault \in {"none", "lookup", "removedirs", "download", "extract", "save"},
       faultModule \in ModuleNames, reg \in Registries(ModuleNames) :
        \E o \in {cmd_update_modules(Snapshot, reg, fault, faultModule)} :
            Run("updatemodules", In(NoModule, NoVersion, fault, faultModule, reg), o)

CmdList ==
    \E module \in ModuleNames, fault \in {"none", "request"} :
        \E o \in {cmd_list_versions(Snapshot, module, fault)} :
            Run("list", In(module, NoVersion, "none", NoModule, <<>>), o)

CmdRegister ==
    \E username \in Users, fault \in {"none", "request"} :
        \E o \in {cmd_register(Snapshot, username, fault)} : Run("register", NoInp, o)

CmdLogin ==
    \E username \in LoginNames, resp \in LoginResps :
        \E o \in {cmd_login(Snapshot, username, resp)} : Run("login", NoInp, o)

CmdLogout ==
    \E answer \in Answers :
        \E o \in {cmd_logout(Snapshot, answer)} : Run("logout", NoInp, o)

CmdWhoami ==
    \E fault \in {"none", "request"}, env \in SessionEnvs :
        \E o \in {cmd_whoami(Snapshot, fault, env.check, env.refresh)} :
            Run("whoami", NoInp, o)

CmdUpload ==
    \E answer \in Answers, fault \in {"none", "nozip", "request"}, env \in SessionEnvs :
        \E o \in {cmd_upload(Snapshot, ModuleAt(1), "v1", answer, fault, env.check, env.refresh)} :
            Run("upload", In(ModuleAt(1), "v1", "none", NoModule, <<>>), o)

CmdDeleteFromPms ==
    \E vername \in {"v1", NoVersion},
       answer1 \in Answers, answer2 \in Answers, fault \in {"none", "request"},
       env \in SessionEnvs :
        \E o \in {cmd_delete_from_pls(Snapshot, ModuleAt(1), vername, answer1, answer2,
                                     fault, env.check, env.refresh)} :
            Run("deletefrompms", In(ModuleAt(1), vername, "none", NoModule, <<>>), o)

Next ==
    \/ CmdInit
    \/ CmdInstall
    \/ CmdRemove
    \/ CmdUpdateModules
    \/ CmdList
    \/ CmdRegister
    \/ CmdLogin
    \/ CmdLogout
    \/ CmdWhoami
    \/ CmdUpload
    \/ CmdDeleteFromPms

Spec == Init /\ [][Next]_vars

\* a fresh machine: no project in the directory and no credential file
InitFresh ==
    /\ manifestExists = FALSE
    /\ modules = <<>>
    /\ dirs = <<>>
    /\ auth = NoAuth
    /\ lastCmd = "none"
    /\ exitCode = 0
    /\ declined = FALSE
    /\ log = <<>>
    /\ sess = NoSess
    /\ inp = NoInp
    /\ pre = Snapshot
    /\ pending = "none"

SpecFresh == InitFresh /\ [][Next]_vars

\* ------------------------------------------------- one request at a time
\* The commands again, one step per registry request, for what happens while
\* a request is unanswered.  The prompts of these runs are accepted and the
\* files they need exist.

\* the timeout= argument of each request that has one (seconds): lines 170,
\* 201 and 461, 270, 290, 310, 332, 404.  The requests of lines 90-95
\* (check), 354-359 (refresh) and 516-522 (delete) are made without one.
RequestTimeout ==
    [latest |-> 15, download |-> 30, list |-> 15, register |-> 15,
     login |-> 15, whoami |-> 10, upload |-> 60]

HasTimeout(req) == req \in DOMAIN RequestTimeout

\* the request a command makes once refresh_auth_token has returned
MainRequest(cmd) ==
    IF cmd = "whoami" THEN "whoami"
    ELSE IF cmd = "upload" THEN "upload"
    ELSE "delete"

\* the first request of a command, "none" when it ends without one: install
\* looks the version up when none is given and ends at line 193; the
\* authenticated commands start with the liveness check unless load_auth ends
\* them; updatemodules raises at line 435 before any request
FirstRequest(cmd, version, a) ==
    IF cmd = "install" THEN (IF version = NoVersion THEN "latest" ELSE "none")
    ELSE IF cmd \in {"list", "register", "login"} THEN cmd
    ELSE IF cmd \in {"whoami", "upload", "deletefrompms"}
    THEN (IF load_auth(a).exited THEN "none" ELSE "check")
    ELSE "none"

\* the exit status of a command that ends without a request
CodeWithoutRequest(cmd, a) ==
    IF cmd \in {"whoami", "upload", "deletefrompms"} THEN load_auth(a).code ELSE 0

\* what the registry may answer to a request
AnswersTo(req) ==
    IF req = "check" THEN CheckResps
    ELSE IF req = "refresh" THEN RefreshResps
    ELSE IF req = "login" THEN Tokens \cup {"err", "notoken"}
    ELSE {"ok", "err"}

\* the POST /login answer that carries token t ("err": the request failed;
\* "notoken": a body without tokens)
LoginRespOf(t) ==
    IF t = "err" THEN [kind |-> "err", token |-> PyNone, refresh |-> PyNone]
    ELSE IF t = "notoken" THEN [kind |-> "ok", token |-> PyNone, refresh |-> PyNone]
    ELSE [kind |-> "ok", token |-> t, refresh |-> CHOOSE r \in RefreshTokens : TRUE]

\* the process after request req of command cmd got resp (an expired timeout
\* is the failure "err"): the request it makes next, or "none" with its exit
\* status, and the credential file
AfterRequest(cmd, req, resp, st) ==
    LET a == st.auth IN
    IF req = "check"
    THEN IF resp = "alive"
         THEN [pending |-> MainRequest(cmd), code |-> 0, auth |-> a]
         ELSE IF ~Truthy(a.refresh_token)
         THEN [pending |-> "none", code |-> 1, auth |-> a]
         ELSE [pending |-> "refresh", code |-> 0, auth |-> a]
    ELSE IF req = "refresh"
    THEN IF resp \in Tokens
         THEN [pending |-> MainRequest(cmd), code |-> 0, auth |-> refreshed_record(a, resp)]
         ELSE [pending |-> "none", code |-> 1, auth |-> a]
    ELSE IF req = "login"
    THEN LET o == cmd_login(st, inp.module, LoginRespOf(resp)) IN
         [pending |-> "none", code |-> o.code, auth |-> o.st.auth]
    ELSE IF req \in {"upload", "delete"}
    THEN [pending |-> "none", code |-> IF resp = "ok" THEN 0 ELSE 1, auth |-> a]
    ELSE [pending |-> "none", code |-> 0, auth |-> a]

NetCommands ==
    {"install", "updatemodules", "list", "register", "login", "whoami", "upload",
     "deletefrompms"}

\* a command is started: it runs to its first request, or to its end
NetStart ==
    /\ pending = "none"
    /\ \E cmd \in NetCommands, version \in {"v1", NoVersion} :
        /\ version # NoVersion => cmd = "install"
        /\ lastCmd' = cmd
        /\ inp' = In(IF cmd \in {"login", "register"} THEN "alice" ELSE ModuleAt(1),
                     version, "none", NoModule, <<>>)
        /\ pending' = FirstRequest(cmd, version, auth)
        /\ exitCode' = CodeWithoutRequest(cmd, auth)
    /\ log' = <<>>
    /\ pre' = Snapshot
    /\ UNCHANGED <<manifestExists, modules, dirs, auth, declined, sess>>

\* one step of the waiting process: request pending got resp
Proceed(resp, shown) ==
    LET n == AfterRequest(lastCmd, pending, resp, Snapshot) IN
    /\ pending' = n.pending
    /\ exitCode' = n.code
    /\ auth' = n.auth
    /\ log' = Append(log, Ev(pending, NoModule, shown))
    /\ UNCHANGED <<manifestExists, modules, dirs, lastCmd, declined, sess, inp, pre>>

\* the registry answers the pending request
NetAnswer ==
    /\ pending # "none"
    /\ \E resp \in AnswersTo(pending) : Proceed(resp, resp)

\* the registry stays silent and the request's timeout expires: requests
\* raises Timeout, which the command handles as a failed request
NetTimeout ==
    /\ pending # "none"
    /\ HasTimeout(pending)
    /\ Proceed("err", "timeout")

NetNext ==
    \/ NetStart
    \/ NetAnswer
    \/ NetTimeout

\* from a machine with any credential file and no project
InitNet ==
    /\ manifestExists = FALSE
    /\ modules = <<>>
    /\ dirs = <<>>
    /\ auth \in AuthFiles
    /\ lastCmd = "none"
    /\ exitCode = 0
    /\ declined = FALSE
    /\ log = <<>>
    /\ sess = NoSess
    /\ inp = NoInp
    /\ pre = Snapshot
    /\ pending = "none"

SpecNet == InitNet /\ [][NetNext]_vars

\* ------------------------------------------------------------- properties
Events == {log[i] : i \in 1..Len(log)}

PromptAccepted == \E e \in Events : e.op = "prompt" /\ e.v = "accepted"

\* the version install <module>[@version] resolves to
Resolved ==
    IF inp.version \in {NoVersion, "latest"} THEN inp.latest[inp.module] ELSE inp.version

SameDir(M) ==
    /\ Has(dirs, M) <=> Has(pre.dirs, M)
    /\ Has(dirs, M) => dirs[M] = pre.dirs[M]

SameEntry(M) ==
    /\ Has(modules, M) <=> Has(pre.modules, M)
    /\ Has(modules, M) => modules[M] = pre.modules[M]

\* i < j, log[i] is the removal of M's directory and log[j] the extraction into it
RemovedBeforeExtracted(M) ==
    \E i, j \in 1..Len(log) :
        /\ i < j
        /\ log[i].op \in {"removedirs", "rmtree"} /\ log[i].m = M
        /\ log[j].op = "extract" /\ log[j].m = M

\* C1: an install in an initialized project whose prompt the user accepts, and
\* whose download and extraction do not fail, ends with Modules/<module> created
\* and the manifest recording the resolved version for the module.
C1_InstallRecordsResolvedVersion ==
    (/\ lastCmd = "install"
     /\ pre.manifestExists
     /\ PromptAccepted
     /\ inp.fault = "none")
    => (/\ exitCode = 0
        /\ Has(dirs, inp.module)
        /\ Has(modules, inp.module)
        /\ modules[inp.module] = Resolved)

\* C2: after updatemodules, every module M recorded at V whose latest version L
\* at the registry differs from V, with no failure in the run, is recorded at L,
\* and its old directory was removed before the new archive was extracted.
C2_StaleModulesAreUpdated ==
    (/\ lastCmd = "updatemodules"
     /\ pre.manifestExists
     /\ inp.fault = "none")
    => \A M \in DOMAIN pre.modules :
          inp.latest[M] # pre.modules[M]
          => (/\ Has(modules, M)
              /\ modules[M] = inp.latest[M]
              /\ RemovedBeforeExtracted(M))

\* C3: updatemodules leaves alone every module M whose recorded version equals
\* the registry's latest version of M: its directory and its manifest entry are
\* unchanged, and no download request for M is sent.
C3_UpToDateModulesUntouched ==
    lastCmd = "updatemodules"
    => \A M \in DOMAIN pre.modules :
          inp.latest[M] = pre.modules[M]
          => (/\ SameDir(M)
              /\ SameEntry(M)
              /\ ~\E e \in Events : e.op = "download" /\ e.m = M)

C3_Witness ==
    /\ lastCmd = "updatemodules"
    /\ exitCode = 0
    /\ inp.fault = "none"
    /\ \E M \in DOMAIN pre.modules : inp.latest[M] = pre.modules[M]
    /\ \E M \in DOMAIN pre.modules : inp.latest[M] # pre.modules[M]

\* C4: updatemodules on an initialized project goes through every module of the
\* manifest: each one leaves an entry in the log, whatever failed for another
\* module, and no module's failure ends the process (the exit status is 0).
C4_BatchVisitsEveryModule ==
    (lastCmd = "updatemodules" /\ pre.manifestExists)
    => (/\ exitCode = 0
        /\ \A M \in DOMAIN pre.modules : \E e \in Events : e.m = M)

C4_Witness ==
    /\ lastCmd = "updatemodules"
    /\ Cardinality(DOMAIN pre.modules) >= 2
    /\ inp.fault = "download"
    /\ inp.faultModule = ModuleAt(1)
    /\ \E e \in Events : e.op = "report" /\ e.m = ModuleAt(1)
    /\ \E e \in Events : e.op = "report" /\ e.m = ModuleAt(2)

\* C5: when refresh_auth_token finds the access token alive, it sends no
\* refresh request and leaves the credential file as it was.
C5_AliveTokenNoRefresh ==
    (sess.called /\ sess.checkAlive)
    => (/\ ~sess.refreshCalled
        /\ ~\E e \in Events : e.op = "refresh"
        /\ auth = pre.auth)

C5_Witness ==
    /\ sess.returned
    /\ sess.checkAlive
    /\ \E e \in Events : e.op = "check" /\ e.v = auth.token

\* C6: after a successful refresh the credential file has the username and the
\* refresh token it had before, and its access token is the one the refresh
\* response carried.
C6_RefreshKeepsUserAndRefreshToken ==
    (sess.returned /\ sess.refreshCalled)
    => (/\ auth.exists
        /\ auth.username = pre.auth.username
        /\ auth.refresh_token = pre.auth.refresh_token
        /\ auth.token = sess.issued)

C6_Witness ==
    /\ sess.returned
    /\ sess.refreshCalled
    /\ auth.token # pre.auth.token
    /\ auth.refresh_token \in RefreshTokens

\* C7: when refresh_auth_token returns, the stored access token is either the
\* token the liveness check was sent with and found alive, or the token a
\* refresh has just issued.
C7_ReturnedTokenIsLive ==
    sess.returned
    => (/\ auth.exists
        /\ \/ /\ sess.checkAlive
              /\ \E e \in Events : e.op = "check" /\ e.v = auth.token
           \/ /\ sess.refreshCalled
              /\ sess.issued \in Tokens
              /\ auth.token = sess.issued)

C7_Witness ==
    /\ lastCmd = "whoami"
    /\ sess.returned
    /\ ~sess.checkAlive
    /\ \E e \in Events : e.op = "whoami" /\ e.v = sess.issued

\* C8: when refresh_auth_token fails (no credential file, no refresh token, a
\* failed refresh request, a refresh response without a token) the command ends
\* there with a non-zero exit status and the credential file is what it was.
C8_FailedSessionAbortsUnchanged ==
    (sess.called /\ ~sess.returned)
    => (/\ exitCode # 0
        /\ auth = pre.auth
        /\ ~\E e \in Events : e.op \in {"whoami", "upload", "delete", "prompt"})

C8_Witness ==
    /\ sess.called
    /\ ~sess.returned
    /\ sess.refreshCalled
    /\ auth.exists

\* C9: a command that ends at a declined confirmation prompt leaves the
\* manifest and the module directories as they were before it.
C9_DeclineLeavesProjectUnchanged ==
    declined
    => (/\ manifestExists = pre.manifestExists
        /\ modules = pre.modules
        /\ dirs = pre.dirs)

C9_Witness ==
    /\ declined
    /\ lastCmd = "remove"
    /\ Has(dirs, inp.module)
    /\ Has(modules, inp.module)

\* C10: a command that ends at a declined confirmation prompt exits with
\* status zero.
C10_DeclineExitsZero == declined => exitCode = 0

\* the registry requests C11 lists, when they failed in the last invocation
FailedRequests ==
    {e.v : e \in {x \in Events : x.op = "failed"}}
        \cap {"register", "login", "whoami", "list", "upload", "delete"}

\* C11: a command other than updatemodules in which a register, login, whoami,
\* list, upload, delete or download request failed ends with a non-zero exit
\* status.
C11_FailedRequestExitsNonZero ==
    (/\ lastCmd # "updatemodules"
     /\ \/ FailedRequests # {}
        \/ /\ inp.fault = "download"
           /\ \E e \in Events : e.op = "download")
    => exitCode # 0

\* C12: an install without a version whose latest-version lookup fails ends
\* with a non-zero exit status, shows no confirmation prompt, sends no download
\* request and leaves the manifest as it was.
C12_FailedLookupStopsInstall ==
    (/\ lastCmd = "install"
     /\ inp.version = NoVersion
     /\ inp.fault = "lookup")
    => (/\ exitCode # 0
        /\ ~\E e \in Events : e.op \in {"prompt", "download"}
        /\ modules = pre.modules
        /\ manifestExists = pre.manifestExists)

\* the number of latest-version lookups in the log
Lookups == Cardinality({i \in 1..Len(log) : log[i].op = "latest"})

\* the version an install goes on with: the one given after "@", or what the
\* lookup returned
UsedVersion ==
    IF inp.version # NoVersion THEN inp.version
    ELSE IF inp.fault = "lookup" THEN ExcObj
    ELSE inp.latest[inp.module]

\* C13: one run of install makes no latest-version lookup when a version is
\* given and exactly one when none is; every download request and manifest
\* write of the run carries the version the run goes on with (a download for
\* the literal "latest" carries no version parameter).
C13_InstallResolvesOnce ==
    lastCmd = "install"
    => (/\ inp.version # NoVersion => Lookups = 0
        /\ inp.version = NoVersion => Lookups = 1
        /\ \A e \in Events :
              /\ e.op = "download"
                 => e.v = (IF UsedVersion = "latest" THEN "" ELSE UsedVersion)
              /\ e.op = "save_manifest" => e.v = UsedVersion)

C13_Witness ==
    /\ lastCmd = "install"
    /\ inp.version = NoVersion
    /\ inp.fault = "none"
    /\ PromptAccepted
    /\ Lookups = 1
    /\ log[1] = Ev("latest", inp.module, "")

C16_NoLatestInManifest ==
    \A m \in DOMAIN modules : modules[m] # "latest"

C16_Witness ==
    /\ lastCmd = "install"
    /\ inp.version = "latest"
    /\ pre.manifestExists
    /\ PromptAccepted
    /\ exitCode = 0
    /\ modules = <<>>

\* C17: a credential file that exists has a non-empty username, access token
\* and refresh token (checked from a machine with no credential file).
C17_RecordIsComplete ==
    auth.exists
    => (/\ Truthy(auth.username)
        /\ Truthy(auth.token)
        /\ Truthy(auth.refresh_token))

\* the requests that carry the access token as a bearer token
AuthenticatedOps == {"whoami", "upload", "delete"}

\* C19: in whoami, upload and deletefrompms every authenticated request comes
\* after the liveness check (and after the refresh request when there was
\* one), in a run where refresh_auth_token returned, and carries the access
\* token of the credential file as it is after that call: the issued token
\* when a refresh happened.
C19_RequestsCarryCurrentToken ==
    lastCmd \in {"whoami", "upload", "deletefrompms"}
    => \A i \in 1..Len(log) :
          log[i].op \in AuthenticatedOps
          => (/\ sess.returned
              /\ \E j \in 1..(i - 1) : log[j].op = "check"
              /\ sess.refreshCalled => \E j \in 1..(i - 1) : log[j].op = "refresh"
              /\ log[i].v = auth.token
              /\ sess.refreshCalled => log[i].v = sess.issued)

C19_Witness ==
    /\ lastCmd = "upload"
    /\ sess.returned
    /\ sess.refreshCalled
    /\ sess.issued # pre.auth.token
    /\ \E e \in Events : e.op = "upload" /\ e.v = sess.issued

\* the prompts a command shows before its request: two for deleting an entire
\* module, one otherwise
NeededPrompts ==
    IF lastCmd = "deletefrompms" /\ inp.version = NoVersion THEN 2 ELSE 1

AcceptedBefore(i) ==
    Cardinality({j \in 1..(i - 1) : log[j].op = "prompt" /\ log[j].v = "accepted"})

\* C20: an upload or delete request is sent only after every prompt of the
\* command was accepted (one for upload and for deleting a version, two for
\* deleting an entire module); a run with a declined prompt sends no such
\* request.
C20_RequestOnlyAfterAllPrompts ==
    lastCmd \in {"upload", "deletefrompms"}
    => (/\ \A i \in 1..Len(log) :
              log[i].op \in {"upload", "delete"} => AcceptedBefore(i) = NeededPrompts
        /\ (declined \/ \E e \in Events : e.op = "prompt" /\ e.v = "declined")
           => ~\E e \in Events : e.op \in {"upload", "delete"})

C20_Witness ==
    /\ lastCmd = "deletefrompms"
    /\ inp.version = NoVersion
    /\ \E i \in 1..Len(log) : log[i].op = "delete" /\ AcceptedBefore(i) = 2

\* C18: a process that waits for the registry's answer to a request can go on
\* without it: the request has a timeout, whose expiry is a step of the
\* process, so the command ends even when the registry never answers.
C18_EveryRequestTimesOut ==
    pending # "none" => ENABLED NetTimeout

====
